---- MODULE Spec2Model ----
(***************************************************************************)
(* delete-default-vpc.py: the coordinator (main) walks the regions,        *)
(* discovers the default VPCs of each and submits one del_vpc_all task per *)
(* VPC to a ThreadPoolExecutor; each task runs the six teardown steps.     *)
(* Every remote call is one step of the thread that issues it and ends     *)
(* "ok" or with an exception.  The handlers of the script are              *)
(* `except boto3.exceptions.Boto3Error`, so an exception of that class is  *)
(* caught where a handler encloses the call and any other exception        *)
(* (botocore's ClientError stands for them) propagates.                    *)
(***************************************************************************)
EXTENDS Integers, Sequences, FiniteSets, TLC

\* ---------------------------------------------------------------- bounds
NumRegions == 2     \* regions describe_regions returns
MaxVpcs == 2        \* VPCs per region
MaxDefault == 3     \* default VPCs of the whole account
MaxRes == 3         \* resources of one kind in a VPC
MaxAssoc == 1       \* associations of one route table
MaxWorkers == 1     \* largest value the MAX_WORKERS setting takes
MaxFaults == 1      \* remote calls that fail in one run

\* ------------------------------------------------------ program constants
THREADPOOL_MAX_WORKERS == 20

VARIABLES
    remote,     \* the account: regions, the VPCs of each region, resource quota
    env,        \* the MAX_WORKERS environment setting
    main,       \* the coordinator thread: position and locals of main()
    futures,    \* main's list `futures`: one record per submitted del_vpc_all
    faults      \* how many calls have failed so far

vars == <<remote, env, main, futures, faults>>

\* ------------------------------------------------------------- exceptions
Errors == {"Boto3Error", "ClientError"}

Outcomes == {"ok"} \cup Errors

\* `except boto3.exceptions.Boto3Error as e`
ExceptBoto3Error(e) == e = "Boto3Error"

\* ------------------------------------------------------------ the account
Regions == 1 .. NumRegions

VpcId(region, n) == <<region, n>>

RegionOf(vpc) == vpc[1]

RECURSIVE SeqOfRange(_, _)
SeqOfRange(lo, hi) == IF lo > hi THEN <<>> ELSE <<lo>> \o SeqOfRange(lo + 1, hi)

RECURSIVE IndicesWhere(_, _)
\* the indices of flags (a sequence of booleans) that hold TRUE, ascending
IndicesWhere(flags, from) ==
    IF from > Len(flags) THEN <<>>
    ELSE (IF flags[from] THEN <<from>> ELSE <<>>) \o IndicesWhere(flags, from + 1)

\* describe_vpcs without the isDefault filter: every VPC of the region
get_default_vpcs_unfiltered(region) ==
    [k \in 1 .. Len(remote.isDefault[region]) |-> VpcId(region, k)]

\* describe_vpcs(Filters=[isDefault = true]) and the comprehension over "Vpcs"
get_default_vpcs(region) ==
    LET flags == remote.isDefault[region]
        ns == IndicesWhere(flags, 1)
    IN  [k \in 1 .. Len(ns) |-> VpcId(region, ns[k])]

\* describe_regions() and the comprehension over "Regions"
get_regions == remote.regions

\* ------------------------------------------------- the MAX_WORKERS setting
EnvUnset == [set |-> FALSE, numeric |-> FALSE, n |-> 0]

EnvValues ==
    {EnvUnset}
    \cup {[set |-> TRUE, numeric |-> TRUE, n |-> k] : k \in 0 .. MaxWorkers}
    \cup {[set |-> TRUE, numeric |-> FALSE, n |-> 0]}

\* os.getenv("MAX_WORKERS", THREADPOOL_MAX_WORKERS), then int(...): a number,
\* or ValueError for a text that is no integer literal
IntOfGetenv(e) ==
    IF ~e.set THEN [ok |-> TRUE, n |-> THREADPOOL_MAX_WORKERS]
    ELSE IF e.numeric THEN [ok |-> TRUE, n |-> e.n]
    ELSE [ok |-> FALSE, n |-> 0]

\* ------------------------------------------------------- resource listings
ResId(kind, vpc, n) == <<kind, vpc, n>>

\* one association dict of a route table: with or without the key "Main"
Assocs == {[hasMain |-> FALSE, Main |-> FALSE],
           [hasMain |-> TRUE, Main |-> FALSE],
           [hasMain |-> TRUE, Main |-> TRUE]}

AssocLists == UNION {[1 .. m -> Assocs] : m \in 0 .. MaxAssoc}

GroupNames == {"default", "Default", "default-vpc"}

SeqsUpTo(S, n) == UNION {[1 .. k -> S] : k \in 0 .. n}

\* what the collection of one kind yields for a VPC, seen through the handle
\* of `via`: at most remote.quota resources, none through the handle of
\* another region
Igws(vpc, via) ==
    IF via # RegionOf(vpc) THEN {<<>>}
    ELSE {[k \in 1 .. n |-> [id |-> ResId("igw", vpc, k)]] : n \in 0 .. remote.quota}

Subnets(vpc, via) ==
    IF via # RegionOf(vpc) THEN {<<>>}
    ELSE {[k \in DOMAIN a |-> [id |-> ResId("subnet", vpc, k), default_for_az |-> a[k]]] :
            a \in SeqsUpTo(BOOLEAN, remote.quota)}

RouteTables(vpc, via) ==
    IF via # RegionOf(vpc) THEN {<<>>}
    ELSE {[k \in DOMAIN a |-> [id |-> ResId("rtb", vpc, k), associations_attribute |-> a[k]]] :
            a \in SeqsUpTo(AssocLists, remote.quota)}

NetworkAcls(vpc, via) ==
    IF via # RegionOf(vpc) THEN {<<>>}
    ELSE {[k \in DOMAIN a |-> [id |-> ResId("acl", vpc, k), is_default |-> a[k]]] :
            a \in SeqsUpTo(BOOLEAN, remote.quota)}

SecurityGroups(vpc, via) ==
    IF via # RegionOf(vpc) THEN {<<>>}
    ELSE {[k \in DOMAIN a |-> [id |-> ResId("sg", vpc, k), group_name |-> a[k]]] :
            a \in SeqsUpTo(GroupNames, remote.quota)}

\* ------------------------------------------------------- one teardown task
VERBOSE == TRUE

\* del_vpc_all with the last two calls exchanged
del_vpc_all_vpc_before_sgp ==
    <<"del_igw", "del_sub", "del_rtb", "del_acl", "del_vpc", "del_sgp">>

\* the body of del_vpc_all: the six calls in the order they are written
del_vpc_all == <<"del_igw", "del_sub", "del_rtb", "del_acl", "del_sgp", "del_vpc">>

PositionIn(order, fn) == CHOOSE k \in 1 .. Len(order) : order[k] = fn

\* executor.submit(del_vpc_all, ec2, vpc): the future and the arguments bound to it
NewFuture(ec2, vpc) ==
    [state |-> "PENDING", exception |-> "none", ec2 |-> ec2, vpc |-> vpc,
     fn |-> "none", at |-> "none", listed |-> <<>>, items |-> <<>>, idx |-> 0,
     calls |-> <<>>, out |-> <<>>, hist |-> <<>>]

Write(f, text, id) == [f EXCEPT !.out = Append(@, [text |-> text, id |-> id])]

WriteIfVerbose(f, text, id) == IF VERBOSE THEN Write(f, text, id) ELSE f

\* a detach or delete call issued through the task's handle, and how it ended
Issue(f, op, id, res) ==
    [f EXCEPT !.calls = Append(@, [op |-> op, id |-> id, via |-> f.ec2, res |-> res])]

\* an exception no handler of the step catches leaves del_vpc_all; the worker
\* stores it in the future
Escape(f, e) == [f EXCEPT !.state = "FINISHED", !.exception = e]

NextItem(f) == [f EXCEPT !.idx = @ + 1, !.at = "iter"]

Enter(f, fn) ==
    [f EXCEPT !.fn = fn, !.at = IF fn = "del_vpc" THEN "delete" ELSE "list",
              !.listed = <<>>, !.items = <<>>, !.idx = 0, !.calls = <<>>, !.out = <<>>,
              !.hist = Append(@, [ev |-> "call", fn |-> fn])]

\* one way a step of a task can go: the task afterwards, and whether a call failed
Went(f, res) == [f |-> f, fault |-> IF res = "ok" THEN 0 ELSE 1]

Item(f) == f.items[f.idx]

\* `X.delete()` inside `try: ... except Boto3Error: print(error)` of a loop
\* body, ended by res
TryDelete(f, id, res, errtext) ==
    LET g == Issue(f, "delete", id, res)
    IN  IF res = "ok" THEN NextItem(g)
        ELSE IF ExceptBoto3Error(res) THEN NextItem(Write(g, errtext, id))
        ELSE Escape(g, res)

\* the collection's listing call, made where the step first iterates: outside
\* every try block, so whatever it raises leaves the step
Listing(f, lists) ==
    {Went(Escape(f, e), e) : e \in Errors}
    \cup {Went([f EXCEPT !.listed = l, !.items = l, !.idx = 1, !.at = "iter"], "ok") :
            l \in lists}

\* del_igw with detach_from_vpc in a try statement of its own: the delete call
\* follows whether or not the detach failed
del_igw_delete_after_failed_detach(f) ==
    IF f.at = "list" THEN Listing(f, Igws(f.vpc, f.ec2))
    ELSE IF f.at = "iter"
    THEN {Went(LET id == Item(f).id
                   g == Issue(WriteIfVerbose(f, "Detaching and Removing igw-id: ", id),
                              "detach_from_vpc", id, res)
               IN  IF res = "ok" THEN [g EXCEPT !.at = "delete"]
                   ELSE IF ExceptBoto3Error(res)
                        THEN [Write(g, "Error deleting IGW ", id) EXCEPT !.at = "delete"]
                   ELSE Escape(g, res),
               res) : res \in Outcomes}
    ELSE {Went(TryDelete(f, Item(f).id, res, "Error deleting IGW "), res) : res \in Outcomes}

\* lines 62-79: the ways del_igw goes on from f
del_igw(f) ==
    IF f.at = "list" THEN Listing(f, Igws(f.vpc, f.ec2))
    ELSE IF f.at = "iter"
    THEN {Went(LET id == Item(f).id
                   g == Issue(WriteIfVerbose(f, "Detaching and Removing igw-id: ", id),
                              "detach_from_vpc", id, res)
               IN  IF res = "ok" THEN [g EXCEPT !.at = "delete"]
                   ELSE IF ExceptBoto3Error(res)
                        THEN NextItem(Write(g, "Error deleting IGW ", id))
                   ELSE Escape(g, res),
               res) : res \in Outcomes}
    ELSE {Went(TryDelete(f, Item(f).id, res, "Error deleting IGW "), res) : res \in Outcomes}

\* lines 93-95: ec2.Subnet(subnet.id) for the subnets with default_for_az
RECURSIVE default_subnets(_)
default_subnets(subnets) ==
    IF subnets = <<>> THEN <<>>
    ELSE (IF Head(subnets).default_for_az THEN <<[id |-> Head(subnets).id]>> ELSE <<>>)
         \o default_subnets(Tail(subnets))

\* lines 82-103
del_sub(f) ==
    IF f.at = "list"
    THEN {Went(Escape(f, e), e) : e \in Errors}
         \cup {Went([f EXCEPT !.listed = l, !.items = default_subnets(l),
                              !.idx = 1, !.at = "iter"], "ok") :
                 l \in Subnets(f.vpc, f.ec2)}
    ELSE {Went(TryDelete(WriteIfVerbose(f, "Removing subnet-id: ", Item(f).id),
                         Item(f).id, res, "Error deleting subnet "), res) : res \in Outcomes}

\* line 118: assoc.get("Main", False)
GetMain(assoc) == IF assoc.hasMain THEN assoc.Main ELSE FALSE

\* line 118: any(... for assoc in rtb.associations_attribute)
IsMainRouteTable(rtb) ==
    \E k \in DOMAIN rtb.associations_attribute : GetMain(rtb.associations_attribute[k])

\* a loop body of the shape `if skip: print; continue` / `print; X.delete()`
SkipOrDelete(f, skip, skiptext, deltext, errtext) ==
    IF skip THEN {Went(NextItem(WriteIfVerbose(f, skiptext, Item(f).id)), "ok")}
    ELSE {Went(TryDelete(WriteIfVerbose(f, deltext, Item(f).id),
                         Item(f).id, res, errtext), res) : res \in Outcomes}

\* lines 106-126
del_rtb(f) ==
    IF f.at = "list" THEN Listing(f, RouteTables(f.vpc, f.ec2))
    ELSE SkipOrDelete(f, IsMainRouteTable(Item(f)),
                      " is the main route table, skipping...", "Removing rtb-id: ",
                      "Error deleting route table ")

\* lines 129-149
del_acl(f) ==
    IF f.at = "list" THEN Listing(f, NetworkAcls(f.vpc, f.ec2))
    ELSE SkipOrDelete(f, Item(f).is_default,
                      " is the default NACL, skipping...", "Removing acl-id: ",
                      "Error deleting NACL ")

\* lines 152-172
del_sgp(f) ==
    IF f.at = "list" THEN Listing(f, SecurityGroups(f.vpc, f.ec2))
    ELSE SkipOrDelete(f, Item(f).group_name = "default",
                      " is the default security group, skipping...", "Removing sg-id: ",
                      "Error deleting security group ")

\* lines 175-190
del_vpc(f) ==
    {Went(LET id == ResId("vpc", f.vpc, 0)
              g == [Issue(Write(f, "Removing vpc-id: ", id), "delete", id, res)
                      EXCEPT !.hist = Append(@, [ev |-> "remote", fn |-> "Vpc.delete"])]
          IN  IF res = "ok" THEN [g EXCEPT !.at = "end"]
              ELSE IF ExceptBoto3Error(res)
                   THEN [Write(Write(g, "Error deleting VPC ", id),
                               "Please remove dependencies and delete VPC manually.", id)
                           EXCEPT !.at = "end"]
              ELSE Escape(g, res),
          res) : res \in Outcomes}

\* a step's loop is exhausted (del_vpc: its try statement is over)
StepOver(f) ==
    \/ f.at = "iter" /\ f.idx > Len(f.items)
    \/ f.at = "end"

\* the step returns and del_vpc_all makes its next call, or returns after the last
Return(f) ==
    LET g == [f EXCEPT !.hist = Append(@, [ev |-> "return", fn |-> f.fn])]
        k == PositionIn(del_vpc_all, f.fn)
    IN  IF k < Len(del_vpc_all) THEN Enter(g, del_vpc_all[k + 1])
        ELSE [g EXCEPT !.state = "FINISHED", !.at = "returned"]

\* the ways a running task takes its next step
Body(f) ==
    IF StepOver(f) THEN {Went(Return(f), "ok")}
    ELSE CASE f.fn = "del_igw" -> del_igw(f)
           [] f.fn = "del_sub" -> del_sub(f)
           [] f.fn = "del_rtb" -> del_rtb(f)
           [] f.fn = "del_acl" -> del_acl(f)
           [] f.fn = "del_sgp" -> del_sgp(f)
           [] f.fn = "del_vpc" -> del_vpc(f)

\* the tasks of S one step on, where at most `budget` calls fail on the way
Advance(S, budget) ==
    {o \in S : o.f.state = "FINISHED"}
    \cup UNION {{[f |-> n.f, fault |-> o.fault + n.fault] :
                    n \in {n \in Body(o.f) : o.fault + n.fault <= budget}} :
                 o \in {o \in S : o.f.state # "FINISHED"}}

RECURSIVE RunToEnd(_, _)
\* every way the running tasks of S end when at most `budget` calls fail: each
\* finished task with the number of calls that failed
RunToEnd(S, budget) ==
    IF \A o \in S : o.f.state = "FINISHED" THEN S
    ELSE RunToEnd(Advance(S, budget), budget)

\* ------------------------------------------------------ the worker threads
Running == {t \in DOMAIN futures : futures[t].state = "RUNNING"}

Pending == {t \in DOMAIN futures : futures[t].state = "PENDING"}

\* AllDone satisfied as soon as every work item has been taken from the queue
AllDone_none_queued == \A t \in DOMAIN futures : futures[t].state # "PENDING"

\* every future is done: what shutdown(wait=True) and wait(futures) block on
AllDone == \A t \in DOMAIN futures : futures[t].state = "FINISHED"

Take(t, o) ==
    /\ faults + o.fault <= MaxFaults
    /\ faults' = faults + o.fault
    /\ futures' = [futures EXCEPT ![t] = o.f]
    /\ UNCHANGED <<remote, env, main>>

\* a pool that starts a thread for every queued work item
WorkerRun_thread_per_item(t) ==
    /\ t \in Pending
    /\ \A u \in Pending : t <= u
    /\ Take(t, Went(Enter([futures[t] EXCEPT !.state = "RUNNING"], del_vpc_all[1]), "ok"))

\* ThreadPoolExecutor(max_workers): at most max_workers threads, each taking
\* the oldest queued work item and calling del_vpc_all(ec2, vpc)
WorkerRun(t) ==
    /\ t \in Pending
    /\ \A u \in Pending : t <= u
    /\ Cardinality(Running) < main.max_workers
    /\ Take(t, Went(Enter([futures[t] EXCEPT !.state = "RUNNING"], del_vpc_all[1]), "ok"))

\* one call of a running task inside del_igw (lines 72-79)
Step_del_igw(t) ==
    /\ t \in Running
    /\ futures[t].fn = "del_igw"
    /\ ~StepOver(futures[t])
    /\ \E o \in del_igw(futures[t]) : Take(t, o)

\* one call of a running task inside del_sub (lines 92-103)
Step_del_sub(t) ==
    /\ t \in Running
    /\ futures[t].fn = "del_sub"
    /\ ~StepOver(futures[t])
    /\ \E o \in del_sub(futures[t]) : Take(t, o)

\* one call of a running task inside del_rtb (lines 116-126)
Step_del_rtb(t) ==
    /\ t \in Running
    /\ futures[t].fn = "del_rtb"
    /\ ~StepOver(futures[t])
    /\ \E o \in del_rtb(futures[t]) : Take(t, o)

\* one call of a running task inside del_acl (lines 139-149)
Step_del_acl(t) ==
    /\ t \in Running
    /\ futures[t].fn = "del_acl"
    /\ ~StepOver(futures[t])
    /\ \E o \in del_acl(futures[t]) : Take(t, o)

\* one call of a running task inside del_sgp (lines 162-172)
Step_del_sgp(t) ==
    /\ t \in Running
    /\ futures[t].fn = "del_sgp"
    /\ ~StepOver(futures[t])
    /\ \E o \in del_sgp(futures[t]) : Take(t, o)

\* one call of a running task inside del_vpc (lines 185-190)
Step_del_vpc(t) ==
    /\ t \in Running
    /\ futures[t].fn = "del_vpc"
    /\ ~StepOver(futures[t])
    /\ \E o \in del_vpc(futures[t]) : Take(t, o)

\* a step of del_vpc_all returns and the next is called (lines 210-215)
Step_return(t) ==
    /\ t \in Running
    /\ StepOver(futures[t])
    /\ Take(t, Went(Return(futures[t]), "ok"))

\* a running task runs del_vpc_all to its end; the steps of a task read and
\* write nothing but the task's own record, so they commute with every step
\* of main and of the other tasks
Teardown(t) ==
    /\ t \in Running
    /\ \E o \in RunToEnd({Went(futures[t], "ok")}, MaxFaults - faults) : Take(t, o)

\* ---------------------------------------------------------- the coordinator
MainInit ==
    [pc |-> "boto3.client", client |-> 0, ec2 |-> 0, regions |-> <<>>, i |-> 0,
     vpcs |-> <<>>, j |-> 0, max_workers |-> 0, out |-> <<>>, exception |-> "none"]

MainAt(pc) == main.pc = pc

\* a step of main that ends with res
MainStep(m, res) ==
    /\ res # "ok" => faults < MaxFaults
    /\ faults' = faults + (IF res = "ok" THEN 0 ELSE 1)
    /\ main' = m
    /\ UNCHANGED <<remote, env, futures>>

\* an exception no handler catches: before the `with` block it ends main at
\* once, inside it the executor's __exit__ first joins the workers
Crash(m, e) == [m EXCEPT !.pc = "crashed", !.exception = e]

Unwind(m, e) == [m EXCEPT !.pc = "unwind", !.exception = e]

\* `for region in regions`: the next region, or the end of the `with` block
NextRegion(m) ==
    IF m.i + 1 > Len(m.regions) THEN [m EXCEPT !.pc = "shutdown"]
    ELSE [m EXCEPT !.i = @ + 1, !.pc = "region"]

Region(m) == m.regions[m.i]

\* lines 232-234 without the `continue`: after the message main falls through
\* to the loop over `vpcs`, still bound to the VPCs of the region before
ExceptRegion_no_continue(m, e) ==
    IF ExceptBoto3Error(e)
    THEN LET n == [m EXCEPT !.out = Append(@, [text |-> "Error accessing region ",
                                               region |-> Region(m), vpc |-> <<>>])]
         IN  IF n.vpcs = <<>> THEN NextRegion(n) ELSE [n EXCEPT !.j = 1, !.pc = "submit"]
    ELSE Unwind(m, e)

\* lines 232-234
ExceptRegion(m, e) ==
    IF ExceptBoto3Error(e)
    THEN NextRegion([m EXCEPT !.out = Append(@, [text |-> "Error accessing region ",
                                                 region |-> Region(m), vpc |-> <<>>])])
    ELSE Unwind(m, e)

\* line 220
MainClient ==
    /\ MainAt("boto3.client")
    /\ \E res \in Outcomes :
        MainStep(IF res = "ok" THEN [main EXCEPT !.pc = "get_regions"] ELSE Crash(main, res),
                 res)

\* line 221
MainGetRegions ==
    /\ MainAt("get_regions")
    /\ \E res \in Outcomes :
        MainStep(IF res = "ok" THEN [main EXCEPT !.regions = get_regions, !.pc = "executor"]
                 ELSE Crash(main, res), res)

\* lines 223-226: int(os.getenv(...)) and ThreadPoolExecutor(max_workers=...),
\* which raises ValueError unless max_workers > 0
MainExecutor ==
    /\ MainAt("executor")
    /\ LET v == IntOfGetenv(env)
       IN  MainStep(IF v.ok /\ v.n > 0 THEN NextRegion([main EXCEPT !.max_workers = v.n])
                    ELSE Crash(main, "ValueError"), "ok")

\* lines 228-234 for one region: boto3.client, boto3.resource and
\* get_default_vpcs inside the try statement.  `upto` is the call that fails
\* (4: none does) and res how it ends; the assignments before it are done
RegionCalls == <<"boto3.client", "boto3.resource", "get_default_vpcs">>

\* lines 228-234 with the resource handle made for the first region only and
\* kept for the later ones
TryRegion_ec2_of_first_region(m, upto, res) ==
    LET m1 == IF upto > 1 THEN [m EXCEPT !.client = Region(m)] ELSE m
        m2 == IF upto > 2 /\ m1.ec2 = 0 THEN [m1 EXCEPT !.ec2 = Region(m)] ELSE m1
    IN  IF upto > Len(RegionCalls)
        THEN LET vpcs == get_default_vpcs(m2.client)
                 m3 == [m2 EXCEPT !.vpcs = vpcs, !.j = 1, !.pc = "submit"]
             IN  IF vpcs = <<>> THEN NextRegion(m3) ELSE m3
        ELSE ExceptRegion(m2, res)

TryRegion(m, upto, res) ==
    LET m1 == IF upto > 1 THEN [m EXCEPT !.client = Region(m)] ELSE m
        m2 == IF upto > 2 THEN [m1 EXCEPT !.ec2 = Region(m)] ELSE m1
    IN  IF upto > Len(RegionCalls)
        THEN LET vpcs == get_default_vpcs(m2.client)
                 m3 == [m2 EXCEPT !.vpcs = vpcs, !.j = 1, !.pc = "submit"]
             IN  IF vpcs = <<>> THEN NextRegion(m3) ELSE m3
        ELSE ExceptRegion(m2, res)

Discover ==
    /\ MainAt("region")
    /\ \/ MainStep(TryRegion(main, Len(RegionCalls) + 1, "ok"), "ok")
       \/ \E upto \in 1 .. Len(RegionCalls) : \E e \in Errors :
            MainStep(TryRegion(main, upto, e), e)

\* lines 236-238: the banner and executor.submit(del_vpc_all, ec2, vpc)
Submit ==
    /\ MainAt("submit")
    /\ LET vpc == main.vpcs[main.j]
           m == [main EXCEPT !.out = Append(@, [text |-> "REGION / VPC Id",
                                                region |-> Region(main), vpc |-> vpc]),
                             !.j = @ + 1]
       IN  /\ main' = (IF m.j > Len(m.vpcs) THEN NextRegion(m) ELSE m)
           /\ futures' = Append(futures, NewFuture(main.ec2, vpc))
    /\ UNCHANGED <<remote, env, faults>>

\* the end of the `with` block: executor.shutdown(wait=True)
Shutdown ==
    /\ MainAt("shutdown")
    /\ AllDone
    /\ MainStep([main EXCEPT !.pc = "wait"], "ok")

\* the `with` block left by an exception: shutdown(wait=True), then main ends
UnwindShutdown ==
    /\ MainAt("unwind")
    /\ AllDone
    /\ MainStep([main EXCEPT !.pc = "crashed"], "ok")

\* line 240 as if it took each future's result(), which raises the exception
\* stored in the future
Wait_result_reraises ==
    /\ MainAt("wait")
    /\ AllDone
    /\ LET thrown == {t \in DOMAIN futures : futures[t].exception # "none"}
       IN  MainStep(IF thrown # {}
                    THEN Crash(main, futures[CHOOSE t \in thrown : \A u \in thrown : t <= u].exception)
                    ELSE [main EXCEPT !.pc = "print"], "ok")

\* line 240: concurrent.futures.wait(futures) returns once all are done
Wait ==
    /\ MainAt("wait")
    /\ AllDone
    /\ MainStep([main EXCEPT !.pc = "print"], "ok")

\* line 241
PrintDone ==
    /\ MainAt("print")
    /\ MainStep([main EXCEPT !.out = Append(@, [text |-> "Deleted all default VPCs",
                                                region |-> 0, vpc |-> <<>>]),
                             !.pc = "exit"], "ok")

\* ------------------------------------------------------------ specifications
\* region by region, how many of its VPCs are default VPCs: they come first
Layouts ==
    {c \in [Regions -> 0 .. MaxVpcs] :
        Cardinality({p \in Regions \X (1 .. MaxVpcs) : p[2] <= c[p[1]]}) <= MaxDefault}

Account(regions, c, quota) ==
    [regions |-> SeqOfRange(1, regions),
     isDefault |-> [r \in Regions |-> [n \in 1 .. MaxVpcs |-> n <= c[r]]],
     quota |-> quota]

\* any account of NumRegions regions whose VPCs hold nothing to remove, any
\* MAX_WORKERS setting
Init ==
    /\ remote \in {Account(NumRegions, c, 0) : c \in Layouts}
    /\ env \in EnvValues
    /\ main = MainInit
    /\ futures = <<>>
    /\ faults = 0

\* one region whose first VPC is its only default VPC and holds up to MaxRes
\* resources of each kind; MAX_WORKERS unset
InitTeardown ==
    /\ remote = Account(1, [r \in Regions |-> 1], MaxRes)
    /\ env = EnvUnset
    /\ main = MainInit
    /\ futures = <<>>
    /\ faults = 0

Tasks == 1 .. MaxDefault

Coordinator ==
    \/ MainClient
    \/ MainGetRegions
    \/ MainExecutor
    \/ Discover
    \/ Submit
    \/ Shutdown
    \/ UnwindShutdown
    \/ Wait
    \/ PrintDone

\* the whole program, each teardown one step of its worker
Next ==
    \/ Coordinator
    \/ \E t \in Tasks : WorkerRun(t) \/ Teardown(t)

\* the whole program, each remote call of a teardown one step of its worker
NextCalls ==
    \/ Coordinator
    \/ \E t \in Tasks :
        \/ WorkerRun(t)
        \/ Step_del_igw(t)
        \/ Step_del_sub(t)
        \/ Step_del_rtb(t)
        \/ Step_del_acl(t)
        \/ Step_del_sgp(t)
        \/ Step_del_vpc(t)
        \/ Step_return(t)

Spec == Init /\ [][Next]_vars

SpecTeardown == InitTeardown /\ [][NextCalls]_vars

\* ------------------------------------------------------------------ claims
Futures == {futures[t] : t \in DOMAIN futures}

Ended(f) == f.state = "FINISHED"

\* the functions del_vpc_all has called / that have returned, in order
RECURSIVE FnsOf(_, _)
FnsOf(hist, ev) ==
    IF hist = <<>> THEN <<>>
    ELSE (IF Head(hist).ev = ev THEN <<Head(hist).fn>> ELSE <<>>) \o FnsOf(Tail(hist), ev)

Called(f) == FnsOf(f.hist, "call")

Returned(f) == FnsOf(f.hist, "return")

Range(q) == {q[k] : k \in DOMAIN q}

IsPrefix(p, q) == Len(p) <= Len(q) /\ \A k \in DOMAIN p : p[k] = q[k]

SixSteps == <<"del_igw", "del_sub", "del_rtb", "del_acl", "del_sgp", "del_vpc">>

FiveSteps == {"del_igw", "del_sub", "del_rtb", "del_acl", "del_sgp"}

\* the resources the current step has passed to delete / to detach_from_vpc
Deleted(f) == {c.id : c \in {c \in Range(f.calls) : c.op = "delete"}}

FailedCalls(f, op) == {c \in Range(f.calls) : c.op = op /\ c.res # "ok"}

VpcDeleteCalls(f) == Len(FnsOf(f.hist, "remote"))

VpcDeleteIssued(f) == \E c \in Range(f.calls) : c.op = "delete" /\ c.id[1] = "vpc"

\* the step's loop has run through its list, or the task ended inside the step
StepEnded(f) == StepOver(f) \/ Ended(f)

\* C1: every teardown calls its steps in the order Gateways, Subnets,
\* RouteTables, Acls, SecurityGroups, VPC-delete, each after the previous one
\* has returned, and a teardown that has ended has called all six, whatever
\* failed on the way.
C1_FixedOrderEveryStep ==
    \A f \in Futures :
        /\ IsPrefix(Called(f), SixSteps)
        /\ IsPrefix(Returned(f), Called(f))
        /\ Len(Called(f)) <= Len(Returned(f)) + 1
        /\ Ended(f) => Called(f) = SixSteps

\* C2: a delete call on the VPC has been issued only if the five
\* dependent-resource steps of that teardown have all returned before.
C2_VpcDeleteAfterFiveSteps ==
    \A f \in Futures :
        (VpcDeleteIssued(f) \/ VpcDeleteCalls(f) > 0) => FiveSteps \subseteq Range(Returned(f))

\* C2's case: the VPC delete is issued after a step before it met a failure
C2_Witness ==
    \E f \in Futures :
        /\ VpcDeleteIssued(f)
        /\ faults > 0
        /\ \A c \in Range(f.calls) : c.res = "ok"

\* the resources of its list the current step has to remove
Removable(f) ==
    {r.id : r \in {r \in Range(f.items) :
                    CASE f.fn = "del_rtb" -> ~IsMainRouteTable(r)
                      [] f.fn = "del_acl" -> ~r.is_default
                      [] f.fn = "del_sgp" -> r.group_name # "default"
                      [] OTHER -> TRUE}}

\* C3: once the delete of one resource has failed in a step, the teardown
\* goes on: it has not ended inside that step, and when the step's loop is
\* over every resource the step had to remove has been passed to delete.
C3_FailedDeleteStopsNothing ==
    \A f \in Futures :
        (f.fn \in FiveSteps /\ FailedCalls(f, "delete") # {}) =>
            /\ ~Ended(f)
            /\ StepOver(f) => Deleted(f) = Removable(f)

\* C4: del_vpc_all never throws: a teardown that has ended has returned
\* normally, whichever remote calls failed.
C4_TeardownNeverThrows ==
    \A f \in Futures : Ended(f) => f.exception = "none"

\* C5: the VPC-delete call is attempted exactly once in every teardown,
\* whatever failed in the five steps before it, and never a second time.
C5_VpcDeleteExactlyOnce ==
    \A f \in Futures :
        /\ VpcDeleteCalls(f) <= 1
        /\ Ended(f) => VpcDeleteCalls(f) = 1

MainTables(f) == {r.id : r \in {r \in Range(f.listed) : IsMainRouteTable(r)}}

\* C6: where the route-table list has exactly one main table, that table is
\* never passed to delete, and every other table of the list has been passed
\* to delete when the step has ended.
C6_OnlyMainRouteTableKept ==
    \A f \in Futures :
        (f.fn = "del_rtb" /\ Cardinality(MainTables(f)) = 1) =>
            /\ Deleted(f) \cap MainTables(f) = {}
            /\ StepEnded(f) => Deleted(f) = {r.id : r \in Range(f.listed)} \ MainTables(f)

DefaultSubnets(f) == {r.id : r \in {r \in Range(f.listed) : r.default_for_az}}

\* C7: in the subnet step no subnet outside S (those with default_for_az) is
\* ever passed to delete, and every subnet of S has been passed to delete
\* when the step has ended.
C7_ExactlyDefaultSubnetsDeleted ==
    \A f \in Futures :
        (f.fn = "del_sub" /\ f.at # "list") =>
            /\ Deleted(f) \subseteq DefaultSubnets(f)
            /\ StepEnded(f) => Deleted(f) = DefaultSubnets(f)

GroupsNamed(f, names) == {r.id : r \in {r \in Range(f.listed) : r.group_name \in names}}

\* C8: a security group named exactly "default" is never passed to delete,
\* and every group of another name, "Default" and "default-vpc" included,
\* has been passed to delete when the step has ended.
C8_OnlyGroupNamedDefaultKept ==
    \A f \in Futures :
        (f.fn = "del_sgp" /\ f.at # "list") =>
            /\ Deleted(f) \cap GroupsNamed(f, {"default"}) = {}
            /\ StepEnded(f) => Deleted(f) = GroupsNamed(f, GroupNames \ {"default"})

DefaultAcls(f) == {r.id : r \in {r \in Range(f.listed) : r.is_default}}

Texts(f, id) == {o.text : o \in {o \in Range(f.out) : o.id = id}}

\* C9: where the ACL list has one default ACL, that ACL is never passed to
\* delete and, once the step has ended, has the skip message and not the
\* removal message, and every other ACL has been passed to delete.
C9_DefaultAclSkippedOthersDeleted ==
    \A f \in Futures :
        (f.fn = "del_acl" /\ Cardinality(DefaultAcls(f)) = 1) =>
            /\ Deleted(f) \cap DefaultAcls(f) = {}
            /\ StepEnded(f) =>
                /\ Deleted(f) = {r.id : r \in Range(f.listed)} \ DefaultAcls(f)
                /\ \A id \in DefaultAcls(f) :
                    Texts(f, id) = {" is the default NACL, skipping..."}

MainEnded == main.pc \in {"exit", "crashed"}

\* the regions whose discovery failed: those main printed an error for, and
\* the one main was at when an exception left the loop
FailedRegions ==
    {o.region : o \in {o \in Range(main.out) : o.text = "Error accessing region "}}
    \cup (IF main.exception \in Errors /\ main.i > 0 THEN {Region(main)} ELSE {})

\* C10: when discovery has failed for one region, main has still, by its end,
\* submitted a teardown for every default VPC of every other region, and the
\* teardown has run.
C10_OtherRegionsProcessed ==
    (MainEnded /\ Cardinality(FailedRegions) = 1) =>
        \A r \in Range(remote.regions) \ FailedRegions :
            \A v \in Range(get_default_vpcs(r)) :
                \E f \in Futures : f.vpc = v /\ Ended(f) /\ Called(f) # <<>>

\* main has printed the completion message (line 241)
Printed == \E o \in Range(main.out) : o.text = "Deleted all default VPCs"

\* C11: the message "Deleted all default VPCs" is printed only where every
\* submitted teardown has finished, whatever the pool's capacity; with
\* capacity 1 the teardowns run one at a time.
C11_MessageAfterAllTeardowns ==
    /\ Printed => \A f \in Futures : Ended(f)
    /\ main.max_workers = 1 => Cardinality(Running) <= 1

\* C11's case: capacity 1, three teardowns submitted, the message printed
C11_Witness ==
    /\ Printed
    /\ main.max_workers = 1
    /\ Len(futures) = 3
    /\ \A f \in Futures : Called(f) # <<>>

\* C12: there is no abort path: once the worker pool exists, whichever calls
\* fail, main does not end before every submitted teardown has finished and
\* the completion message is printed.
C12_NoAbortPath ==
    (main.max_workers > 0 /\ MainEnded) => (Printed /\ \A f \in Futures : Ended(f))

\* the teardowns an exception has left
Thrown == {t \in DOMAIN futures : futures[t].exception # "none"}

\* the exceptions main has met itself: the one that ended it and the ones its
\* handler at line 232 caught
RaisedInMain ==
    (IF main.exception \in Errors THEN 1 ELSE 0)
    + Cardinality({k \in DOMAIN main.out : main.out[k].text = "Error accessing region "})

\* C13: an exception that leaves one teardown is never re-raised to main
\* (every exception of a task or of main is one failed call of its own), the
\* other teardowns that end normally have run all six steps, and main, not
\* having failed itself, ends with every task finished and the message printed.
C13_TaskFailureIsolated ==
    /\ Cardinality(Thrown) + RaisedInMain <= faults
    /\ \A t \in DOMAIN futures \ Thrown :
        Ended(futures[t]) => Called(futures[t]) = SixSteps /\ Returned(futures[t]) = SixSteps
    /\ (Thrown # {} /\ MainEnded /\ main.exception = "none") =>
        (Printed /\ \A f \in Futures : Ended(f))

\* C13's case: an exception left one teardown, another ran its six steps and
\* main printed the completion message
C13_Witness ==
    /\ Printed
    /\ \E t \in Thrown : \E u \in DOMAIN futures \ Thrown :
        /\ futures[t].exception = "ClientError"
        /\ Returned(futures[u]) = SixSteps

\* the gateways of the list the loop of del_igw is through with
GatewaysDone(f) ==
    {f.items[k].id : k \in {k \in DOMAIN f.items : k < f.idx \/ Ended(f)}}

\* C14 as stated: a gateway whose detach_from_vpc call failed is still passed
\* to delete before the loop leaves it.
C14_DetachFailureKeepsDelete ==
    \A f \in Futures :
        f.fn = "del_igw" =>
            \A c \in FailedCalls(f, "detach_from_vpc") :
                c.id \in GatewaysDone(f) => c.id \in Deleted(f)

\* C14 amended: the delete call on a gateway is issued only right after the
\* detach_from_vpc call on that gateway has succeeded; a gateway whose detach
\* failed is never passed to delete.
C14_DeleteOnlyAfterDetachOk ==
    \A f \in Futures :
        f.fn = "del_igw" =>
            /\ \A k \in DOMAIN f.calls :
                f.calls[k].op = "delete" =>
                    /\ k > 1
                    /\ f.calls[k - 1].op = "detach_from_vpc"
                    /\ f.calls[k - 1].id = f.calls[k].id
                    /\ f.calls[k - 1].res = "ok"
            /\ \A c \in FailedCalls(f, "detach_from_vpc") : c.id \notin Deleted(f)

\* C14's case: the detach of one gateway failed and was caught, the loop went
\* on, detached and deleted another gateway and has come to its end
C14_Witness ==
    \E f \in Futures :
        /\ f.fn = "del_igw"
        /\ StepOver(f)
        /\ \E c \in FailedCalls(f, "detach_from_vpc") : c.res = "Boto3Error"
        /\ Deleted(f) # {}

\* the capacity the MAX_WORKERS setting asks for
Configured == IF env.set THEN env.n ELSE THREADPOOL_MAX_WORKERS

\* C15: the teardowns running at any moment are at most the pool's capacity,
\* which is the MAX_WORKERS setting, 20 when it is unset; teardowns beyond
\* it stay queued.
C15_RunningWithinCapacity ==
    /\ Cardinality(Running) <= main.max_workers
    /\ futures # <<>> => main.max_workers = Configured /\ Configured >= 1

\* C15's case: the pool is full, a teardown has finished before and another
\* is still queued
C15_Witness ==
    /\ Cardinality(Running) = main.max_workers
    /\ Pending # {}
    /\ \E f \in Futures : Ended(f)

\* the regions main's loop is through with
RegionsDone ==
    {main.regions[k] : k \in {k \in DOMAIN main.regions :
        k < main.i \/ (k = main.i /\ main.pc \in {"shutdown", "wait", "print", "exit"})}}

TasksFor(vpc) == {t \in DOMAIN futures : futures[t].vpc = vpc}

\* C16: one teardown is submitted for each default VPC discovered and none
\* for anything else, so no two teardowns have the same VPC, and the delete
\* call on a VPC is issued at most once.
C16_OneTeardownPerVpc ==
    /\ \A f \in Futures :
        /\ Cardinality(TasksFor(f.vpc)) = 1
        /\ f.vpc \in Range(get_default_vpcs(RegionOf(f.vpc)))
        /\ VpcDeleteCalls(f) <= 1
    /\ \A r \in RegionsDone \ FailedRegions :
        \A v \in Range(get_default_vpcs(r)) : Cardinality(TasksFor(v)) = 1

\* C16's case: a run that has ended with teardowns for two VPCs of one region
\* and a VPC of another, each having issued its delete call on the VPC
C16_Witness ==
    /\ Printed
    /\ \E t, u, w \in DOMAIN futures :
        /\ t # u
        /\ RegionOf(futures[t].vpc) = RegionOf(futures[u].vpc)
        /\ RegionOf(futures[w].vpc) # RegionOf(futures[t].vpc)
    /\ \A f \in Futures : VpcDeleteCalls(f) = 1

\* C17: every teardown holds, and issues each of its calls through, the
\* handle of the region its VPC was discovered in, whatever main has bound
\* its variables to since.
C17_OwnRegionHandle ==
    \A f \in Futures :
        /\ f.ec2 = RegionOf(f.vpc)
        /\ \A c \in Range(f.calls) : c.via = RegionOf(f.vpc)

\* C17's case: main has rebound ec2 to a later region while a teardown of an
\* earlier region is queued or running, and another has issued a call
C17_Witness ==
    /\ \E f \in Futures : ~Ended(f) /\ main.ec2 # f.ec2
    /\ \E f \in Futures : Ended(f) /\ f.calls # <<>> /\ main.ec2 # f.ec2

\* the VPCs of the account flagged isDefault
DefaultVpcs == {v \in Regions \X (1 .. MaxVpcs) : remote.isDefault[v[1]][v[2]]}

\* the VPC a call's target is or belongs to
VpcOfTarget(id) == id[2]

\* C18: every detach or delete call targets a VPC flagged default or a
\* resource listed under one; nothing is issued on a VPC that is not flagged
\* default or on a resource of such a VPC.
C18_OnlyDefaultVpcsTouched ==
    \A f \in Futures :
        /\ f.vpc \in DefaultVpcs
        /\ \A c \in Range(f.calls) :
            /\ VpcOfTarget(c.id) = f.vpc
            /\ c.id[1] = "vpc" \/ \E r \in Range(f.listed) : r.id = c.id

\* C18's case: the account holds a VPC that is not flagged default, and a
\* teardown has deleted a listed resource of the default VPC
C18_Witness ==
    /\ \E r \in Regions : \E n \in 1 .. MaxVpcs : ~remote.isDefault[r][n]
    /\ \E f \in Futures : \E c \in Range(f.calls) :
        c.op = "delete" /\ c.res = "ok" /\ c.id[1] # "vpc"

====
